---- MODULE Spec2Model ----
(***************************************************************************)
(* Model of the real-time presence layer of cyberplace-be:                 *)
(* WebSocketManager (src/src/ws/config.js), a socket.io server wrapper     *)
(* that keeps the identity <-> socket registry, the room directory and the *)
(* connection metrics.                                                     *)
(*                                                                         *)
(* Node runs every handler to completion on one thread, so each handler is *)
(* one atomic action.  previousSocket.disconnect(true) makes socket.io     *)
(* close the socket and emit its 'disconnect' event synchronously, so the  *)
(* handleDisconnection of a superseded socket runs nested inside           *)
(* removeUserFromPreviousSocket, as in the code.                           *)
(*                                                                         *)
(* MessageService (src/src/services/auth.js) is the dispatcher on top of   *)
(* it: sendToUser, broadcast and sendToRoom.                               *)
(*                                                                         *)
(* MemeService (src/src/services/auth.js) works on the store with awaited  *)
(* queries: a call is a chain of steps, one per await, and the steps of    *)
(* concurrent calls interleave.  GeminiService (src/unnamed/part_000)      *)
(* caches generated texts under a key derived from the prompt.             *)
(***************************************************************************)
EXTENDS Integers, FiniteSets, Sequences, TLC

\* ---- bounds -------------------------------------------------------------
\* sockets that may connect in a run of Spec
MaxConns == 2
\* sockets that may connect in a run of SpecWide
WideConns == 3
\* instants new Date() may advance through in a run of SpecClock
MaxClock == 1
\* calls of one service method that may be started in a run
MaxCalls == 2

\* ---- universe -----------------------------------------------------------
Usernames == {"alice", "bob"}
\* a missing / empty username in the authenticate payload (falsy in JS)
NoUsername == ""
\* room names a client sends in join_room / leave_room
RoomNames == {"lobby", "user_alice"}
\* a join_room / leave_room payload without a room: the room is undefined
NoRoom == "<undefined>"
\* reason socket.io gives for a close that the server did not force
CloseReasons == {"transport close"}
\* reason socket.io gives for socket.disconnect() called by the server
ForcedReason == "server namespace disconnect"

VARIABLES
    isInitialized,      \* initialize() has run: this.io is set
    sockets,            \* socket id -> "new" | "open" | "closed"  (io.sockets.sockets = the open ones)
                        \* its domain is the ids socket.io will hand out in this run
    connectedUsers,     \* Map username -> { socketId, userData: { connectedAt, lastSeen } }
    userSockets,        \* Map socketId -> username
    socketUsername,     \* socket.username property of each socket object ("" = undefined)
    rooms,              \* Map room -> Set of usernames
    adapterRooms,       \* socket.io rooms: set of <<room, socketId>> (socket.join / socket.leave)
    connectionMetrics,  \* the raw counters
    clock,              \* what new Date() returns now
    out,                \* what the last handler emitted, in order
    ret,                \* what the last MessageService call returned ("none" for a handler)
    last,               \* the last transport event or call handled
    meme,               \* the row of one meme: upvote_count, downvote_count, total_bid_amount
    votes,              \* the active rows of table votes for the meme: username -> voted
    bids,               \* the rows of table bids for the meme: their bid_amount, in order
    bidSummary,         \* the bid_amount of the meme's row in bid_summaries, 0 when there is none
    voteCalls,          \* the running voteOnMeme calls: position and locals
    bidCalls,           \* the running bidOnMeme calls: position and locals
    cache,              \* GeminiService.cache: key -> text
    genCalls            \* the running generateText calls: position and locals

wsVars == <<isInitialized, sockets, connectedUsers, userSockets, socketUsername, rooms,
            adapterRooms, connectionMetrics, clock, out, ret, last>>
storeVars == <<meme, votes, bids, bidSummary, voteCalls, bidCalls>>
genVars == <<cache, genCalls>>
vars == <<wsVars, storeVars, genVars>>

\* ---- Map helpers ---------------------------------------------------------
MapHas(m, k) == k \in DOMAIN m
MapSet(m, k, v) == [x \in (DOMAIN m) \cup {k} |-> IF x = k THEN v ELSE m[x]]
MapDelete(m, k) == [x \in (DOMAIN m) \ {k} |-> m[x]]
EmptyMap == [x \in {} |-> 0]

\* the program state as one value, threaded through nested handler calls
State == [isInitialized |-> isInitialized, sockets |-> sockets, connectedUsers |-> connectedUsers,
          userSockets |-> userSockets, socketUsername |-> socketUsername,
          rooms |-> rooms, adapterRooms |-> adapterRooms,
          connectionMetrics |-> connectionMetrics, clock |-> clock, out |-> <<>>,
          ret |-> "none"]

Install(s) ==
    /\ isInitialized' = s.isInitialized
    /\ sockets' = s.sockets
    /\ connectedUsers' = s.connectedUsers
    /\ userSockets' = s.userSockets
    /\ socketUsername' = s.socketUsername
    /\ rooms' = s.rooms
    /\ adapterRooms' = s.adapterRooms
    /\ connectionMetrics' = s.connectionMetrics
    /\ out' = s.out
    /\ ret' = s.ret
    /\ UNCHANGED <<storeVars, genVars>>

SocketIds == DOMAIN sockets

OpenSockets(s) == {c \in DOMAIN s.sockets : s.sockets[c] = "open"}

\* ---- outbound events ----------------------------------------------------
\* ch: "socket" = socket.emit, "room" = socket.to(room).emit, "io" = io.emit,
\*     "hook" = EventEmitter emit to business-logic subscribers
\*     "ioroom" = io.to(room).emit
\* seen: the registry bindings and room memberships at the moment of the emit
Registry(s) ==
    [bindings |-> [u \in DOMAIN s.connectedUsers |-> s.connectedUsers[u].socketId],
     userSockets |-> s.userSockets, rooms |-> s.rooms]

Event(s, ch, ev, to, username, room, arg) ==
    [ch |-> ch, ev |-> ev, to |-> to, username |-> username, room |-> room, arg |-> arg,
     seen |-> Registry(s)]

\* socket.emit(ev, ...): reaches the client only while the socket is connected
SocketEmit(s, c, ev, username, room, arg) ==
    [s EXCEPT !.out = Append(@, Event(s, "socket", ev,
        IF s.sockets[c] = "open" THEN {c} ELSE {}, username, room, arg))]

\* socket.to(room).emit(ev, ...): every socket in the socket.io room but the sender
RoomEmit(s, c, room, ev, username) ==
    [s EXCEPT !.out = Append(@, Event(s, "room", ev,
        {d \in DOMAIN s.sockets : <<room, d>> \in s.adapterRooms} \ {c}, username, room, ""))]

\* this.emit(ev, ...): lifecycle hook for external listeners
HookEmit(s, ev, username, room, arg) ==
    [s EXCEPT !.out = Append(@, Event(s, "hook", ev, {}, username, room, arg))]

\* config.js:263  broadcastUserStatus: io.emit to every connected socket
broadcastUserStatus(s, username, status) ==
    [s EXCEPT !.out = Append(@, Event(s, "io", "user_status", OpenSockets(s), username, "", status))]

\* ---- socket.io room primitives -------------------------------------------
\* the room every socket joins at connection: its own id (used by io.to(socketId))
SidRoom(c) == ToString(c)
\* config.js:117  personal room name `user_${username}`
UserRoom(username) == "user_" \o username

\* socket.join(room); a no-op once the socket is closed
SocketJoin(s, c, room) ==
    IF s.sockets[c] = "open"
    THEN [s EXCEPT !.adapterRooms = @ \cup {<<room, c>>}]
    ELSE s

\* socket.leave(room)
SocketLeave(s, c, room) == [s EXCEPT !.adapterRooms = @ \ {<<room, c>>}]

\* ---- handlers -------------------------------------------------------------
\* config.js:223-231  the loop of handleDisconnection over this.rooms
RECURSIVE RemoveFromRooms(_, _, _, _)
RemoveFromRooms(s, c, username, todo) ==
    IF todo = {} THEN s
    ELSE LET room == CHOOSE r \in todo : TRUE
             users == s.rooms[room] \ {username}
             s1 == [s EXCEPT !.rooms = MapSet(@, room, users)]
             s2 == RoomEmit(s1, c, room, "user_left_room", username)
             s3 == IF users = {} THEN [s2 EXCEPT !.rooms = MapDelete(@, room)] ELSE s2
         IN  IF username \in s.rooms[room]
             THEN RemoveFromRooms(s3, c, username, todo \ {room})
             ELSE RemoveFromRooms(s, c, username, todo \ {room})

\* mutant: the counters are updated only for a socket that has a username
handleDisconnection_CountAuthenticatedOnly(s, c, reason) ==
    IF MapHas(s.userSockets, c)
    THEN LET username == s.userSockets[c]
             s1 == [s EXCEPT !.connectionMetrics.currentConnections = @ - 1,
                             !.connectionMetrics.totalDisconnections = @ + 1]
             s2 == [s1 EXCEPT !.connectedUsers = MapDelete(@, username),
                              !.userSockets = MapDelete(@, c)]
             s3 == RemoveFromRooms(s2, c, username, DOMAIN s2.rooms)
             s4 == broadcastUserStatus(s3, username, "offline")
         IN  HookEmit(s4, "user_disconnected", username, "", reason)
    ELSE s

\* config.js:211-239
handleDisconnection(s, c, reason) ==
    LET s1 == [s EXCEPT !.connectionMetrics.currentConnections = @ - 1,
                        !.connectionMetrics.totalDisconnections = @ + 1]
    IN  IF MapHas(s1.userSockets, c)
        THEN LET username == s1.userSockets[c]
                 s2 == [s1 EXCEPT !.connectedUsers = MapDelete(@, username),
                                  !.userSockets = MapDelete(@, c)]
                 s3 == RemoveFromRooms(s2, c, username, DOMAIN s2.rooms)
                 s4 == broadcastUserStatus(s3, username, "offline")
             IN  HookEmit(s4, "user_disconnected", username, "", reason)
        ELSE s1

\* socket.io closing a socket (client close, or socket.disconnect by the server):
\* the socket leaves all its rooms and io.sockets.sockets, then the 'disconnect'
\* listener registered at config.js:84 runs
SocketClose(s, c, reason) ==
    IF s.sockets[c] # "open" THEN s
    ELSE handleDisconnection(
            [s EXCEPT !.adapterRooms = {p \in @ : p[2] # c},
                      !.sockets[c] = "closed"], c, reason)

\* mutant: the previous socket's registry entry is dropped but the socket is left open
removeUserFromPreviousSocket_NoClose(s, username) ==
    IF MapHas(s.connectedUsers, username)
    THEN [s EXCEPT !.userSockets = MapDelete(@, s.connectedUsers[username].socketId)]
    ELSE s

\* config.js:248-260
removeUserFromPreviousSocket(s, username) ==
    IF MapHas(s.connectedUsers, username)
    THEN LET previousSocketId == s.connectedUsers[username].socketId
             s1 == IF s.sockets[previousSocketId] = "open"
                   THEN SocketClose(s, previousSocketId, ForcedReason)
                   ELSE s
         IN  [s1 EXCEPT !.userSockets = MapDelete(@, previousSocketId)]
    ELSE s

\* mutant: the new binding is stored first and the previous socket is closed after it
handleAuthentication_CloseAfter(s, c, username) ==
    IF username = NoUsername
    THEN SocketEmit(s, c, "authentication_error", "", "", "Username is required")
    ELSE LET s1 == [s EXCEPT !.connectedUsers = MapSet(@, username,
                                  [socketId |-> c, connectedAt |-> s.clock, lastSeen |-> s.clock]),
                             !.userSockets = MapSet(@, c, username),
                             !.socketUsername[c] = username]
             s2 == IF MapHas(s.connectedUsers, username)
                   THEN SocketClose(s1, s.connectedUsers[username].socketId, ForcedReason)
                   ELSE s1
             s3 == SocketJoin(s2, c, UserRoom(username))
             s4 == SocketEmit(s3, c, "authenticated", username, "", "")
             s5 == broadcastUserStatus(s4, username, "online")
         IN  HookEmit(s5, "user_authenticated", username, "", "")

\* mutant: the username is not validated
handleAuthentication_NoValidation(s, c, username) ==
    LET s1 == removeUserFromPreviousSocket(s, username)
        s2 == [s1 EXCEPT !.connectedUsers = MapSet(@, username,
                             [socketId |-> c, connectedAt |-> s1.clock, lastSeen |-> s1.clock]),
                         !.userSockets = MapSet(@, c, username),
                         !.socketUsername[c] = username]
        s3 == SocketJoin(s2, c, UserRoom(username))
        s4 == SocketEmit(s3, c, "authenticated", username, "", "")
        s5 == broadcastUserStatus(s4, username, "online")
    IN  HookEmit(s5, "user_authenticated", username, "", "")

\* config.js:91-139
handleAuthentication(s, c, username) ==
    IF username = NoUsername
    THEN SocketEmit(s, c, "authentication_error", "", "", "Username is required")
    ELSE LET s1 == removeUserFromPreviousSocket(s, username)
             s2 == [s1 EXCEPT !.connectedUsers = MapSet(@, username,
                                  [socketId |-> c, connectedAt |-> s1.clock, lastSeen |-> s1.clock]),
                              !.userSockets = MapSet(@, c, username),
                              !.socketUsername[c] = username]
             s3 == SocketJoin(s2, c, UserRoom(username))
             s4 == SocketEmit(s3, c, "authenticated", username, "", "")
             s5 == broadcastUserStatus(s4, username, "online")
         IN  HookEmit(s5, "user_authenticated", username, "", "")

\* mutant: a new connection is counted in the total only
handleConnection_TotalOnly(s, c) ==
    LET s1 == [s EXCEPT !.connectionMetrics.totalConnections = @ + 1]
    IN  HookEmit(s1, "connection", "", "", "")

\* config.js:57-69
handleConnection(s, c) ==
    LET s1 == [s EXCEPT !.connectionMetrics.totalConnections = @ + 1,
                        !.connectionMetrics.currentConnections = @ + 1]
    IN  HookEmit(s1, "connection", "", "", "")

\* mutant: the heartbeat refreshes every session
handlePing_AllSessions(s, c) ==
    LET s1 == SocketEmit(s, c, "pong", "", "", "")
    IN  IF MapHas(s1.userSockets, c) /\ MapHas(s1.connectedUsers, s1.userSockets[c])
        THEN [s1 EXCEPT !.connectedUsers =
                 [u \in DOMAIN @ |-> [@[u] EXCEPT !.lastSeen = s1.clock]]]
        ELSE s1

\* config.js:142-154
handlePing(s, c) ==
    LET s1 == SocketEmit(s, c, "pong", "", "", "")
    IN  IF MapHas(s1.userSockets, c) /\ MapHas(s1.connectedUsers, s1.userSockets[c])
        THEN [s1 EXCEPT !.connectedUsers[s1.userSockets[c]].lastSeen = s1.clock]
        ELSE s1

\* mutant: the username is added only when the join creates the room
handleJoinRoom_OnlyNewRoom(s, c, room) ==
    LET username == s.socketUsername[c]
    IN  IF username = NoUsername
        THEN SocketEmit(s, c, "room_error", "", "", "Authentication required")
        ELSE LET s1 == SocketJoin(s, c, room)
                 s3 == IF MapHas(s1.rooms, room) THEN s1
                       ELSE [s1 EXCEPT !.rooms = MapSet(@, room, {username})]
                 s4 == SocketEmit(s3, c, "room_joined", username, room, "")
                 s5 == RoomEmit(s4, c, room, "user_joined_room", username)
             IN  HookEmit(s5, "user_joined_room", username, room, "")

\* config.js:157-182
handleJoinRoom(s, c, room) ==
    LET username == s.socketUsername[c]
    IN  IF username = NoUsername
        THEN SocketEmit(s, c, "room_error", "", "", "Authentication required")
        ELSE LET s1 == SocketJoin(s, c, room)
                 s2 == IF MapHas(s1.rooms, room) THEN s1
                       ELSE [s1 EXCEPT !.rooms = MapSet(@, room, {})]
                 s3 == [s2 EXCEPT !.rooms[room] = @ \cup {username}]
                 s4 == SocketEmit(s3, c, "room_joined", username, room, "")
                 s5 == RoomEmit(s4, c, room, "user_joined_room", username)
             IN  HookEmit(s5, "user_joined_room", username, room, "")

\* mutant: a room is kept in the directory when its last member leaves
handleLeaveRoom_KeepEmpty(s, c, room) ==
    LET username == s.socketUsername[c]
    IN  IF username = NoUsername
        THEN s
        ELSE LET s1 == SocketLeave(s, c, room)
                 s2 == IF MapHas(s1.rooms, room)
                       THEN [s1 EXCEPT !.rooms = MapSet(@, room, s1.rooms[room] \ {username})]
                       ELSE s1
                 s3 == SocketEmit(s2, c, "room_left", username, room, "")
                 s4 == RoomEmit(s3, c, room, "user_left_room", username)
             IN  HookEmit(s4, "user_left_room", username, room, "")

\* mutant: the room entry is dropped whoever leaves it
handleLeaveRoom_DropRoom(s, c, room) ==
    LET username == s.socketUsername[c]
    IN  IF username = NoUsername
        THEN s
        ELSE LET s1 == SocketLeave(s, c, room)
                 s2 == IF MapHas(s1.rooms, room)
                       THEN [s1 EXCEPT !.rooms = MapDelete(@, room)]
                       ELSE s1
                 s3 == SocketEmit(s2, c, "room_left", username, room, "")
                 s4 == RoomEmit(s3, c, room, "user_left_room", username)
             IN  HookEmit(s4, "user_left_room", username, room, "")

\* config.js:185-208
handleLeaveRoom(s, c, room) ==
    LET username == s.socketUsername[c]
    IN  IF username = NoUsername
        THEN s
        ELSE LET s1 == SocketLeave(s, c, room)
                 s2 == IF MapHas(s1.rooms, room)
                       THEN LET users == s1.rooms[room] \ {username}
                            IN  IF users = {}
                                THEN [s1 EXCEPT !.rooms = MapDelete(@, room)]
                                ELSE [s1 EXCEPT !.rooms = MapSet(@, room, users)]
                       ELSE s1
                 s3 == SocketEmit(s2, c, "room_left", username, room, "")
                 s4 == RoomEmit(s3, c, room, "user_left_room", username)
             IN  HookEmit(s4, "user_left_room", username, room, "")

\* ---- MessageService (src/src/services/auth.js) ----------------------------
\* config.js:272-277  getIO throws unless initialize() has run
getIOThrows(s) == ~s.isInitialized

\* io.emit(event, message): every connected socket
IoEmit(s, ev) ==
    [s EXCEPT !.out = Append(@, Event(s, "io", ev, OpenSockets(s), "", "", ""))]

\* io.to(room).emit(event, message): every socket in the socket.io room
IoToEmit(s, room, ev) ==
    [s EXCEPT !.out = Append(@, Event(s, "ioroom", ev,
        {d \in DOMAIN s.sockets : <<room, d>> \in s.adapterRooms}, "", room, ""))]

\* auth.js:551-570
sendToUser(s, username, ev) ==
    IF ~MapHas(s.connectedUsers, username)
    THEN [s EXCEPT !.ret = "false"]
    ELSE IF getIOThrows(s)
         THEN [s EXCEPT !.ret = "false"]
         ELSE [IoToEmit(s, SidRoom(s.connectedUsers[username].socketId), ev)
                  EXCEPT !.ret = "true"]

\* auth.js:586-605
broadcast(s, ev) ==
    IF getIOThrows(s)
    THEN [s EXCEPT !.ret = "false"]
    ELSE [IoEmit(s, ev) EXCEPT !.ret = "true"]

\* auth.js:608-627
sendToRoom(s, room, ev) ==
    IF getIOThrows(s)
    THEN [s EXCEPT !.ret = "false"]
    ELSE [IoToEmit(s, room, ev) EXCEPT !.ret = "true"]

\* ---- read-only API --------------------------------------------------------
\* config.js:280
isUserOnline(username) == MapHas(connectedUsers, username)
\* config.js:292  (the socketId of the entry; 0 stands for undefined)
getUserInfo(username) ==
    IF MapHas(connectedUsers, username) THEN connectedUsers[username].socketId ELSE 0
\* config.js:296-306
getConnectionMetrics ==
    [totalConnections |-> connectionMetrics.totalConnections,
     currentConnections |-> Cardinality(DOMAIN connectedUsers),
     totalDisconnections |-> connectionMetrics.totalDisconnections,
     rooms |-> Cardinality(DOMAIN rooms)]
\* config.js:309
getRoomUsers(room) == IF MapHas(rooms, room) THEN rooms[room] ELSE {}
\* config.js:313
getAllRooms == DOMAIN rooms

\* ---- MemeService and GeminiService: values ---------------------------------
CallIds == 1..MaxCalls
\* voted in the payload of a vote: 1 for up, 0 for down
VoteValues == {0, 1}
\* bid_amount in the payload of a bid
BidAmounts == {1, 2}
\* existingVote when the select finds no row (null)
NoVote == -1

Max(a, b) == IF a >= b THEN a ELSE b
Min(a, b) == IF a <= b THEN a ELSE b

RECURSIVE SumSeq(_)
SumSeq(q) == IF q = <<>> THEN 0 ELSE Head(q) + SumSeq(Tail(q))

IdleVoteCall == [pc |-> "idle", username |-> NoUsername, voted |-> 0,
                 existingVote |-> NoVote, upvote_count |-> 0, downvote_count |-> 0]
IdleBidCall == [pc |-> "idle", bid_amount |-> 0, total_bid_amount |-> 0,
                existingBidSummary |-> 0, newTotal |-> 0]

\* part_000:669-672  length of the cache key
KeyLength == 50
\* the padding character '=' of base64, next to the 64 digits 0..63
Pad == 64

\* Buffer.from(prompt).toString('base64'): three bytes give four digits,
\* a last group of one or two bytes is padded with '='
RECURSIVE Base64(_)
Base64(bytes) ==
    IF bytes = <<>> THEN <<>>
    ELSE IF Len(bytes) = 1
         THEN <<bytes[1] \div 4, (bytes[1] % 4) * 16, Pad, Pad>>
         ELSE IF Len(bytes) = 2
              THEN <<bytes[1] \div 4, (bytes[1] % 4) * 16 + bytes[2] \div 16,
                     (bytes[2] % 16) * 4, Pad>>
              ELSE <<bytes[1] \div 4, (bytes[1] % 4) * 16 + bytes[2] \div 16,
                     (bytes[2] % 16) * 4 + bytes[3] \div 64, bytes[3] % 64>>
                   \o Base64(SubSeq(bytes, 4, Len(bytes)))

\* part_000:669-672
generateCacheKey(prompt) ==
    LET b == Base64(prompt) IN SubSeq(b, 1, Min(KeyLength, Len(b)))

\* part_000:601  the bytes of "Generate a single, short, funny caption for a
\* cyberpunk meme with tags: ", the head of the caption prompt
CaptionHead ==
    <<71, 101, 110, 101, 114, 97, 116, 101, 32, 97, 32, 115, 105, 110, 103, 108, 101, 44,
      32, 115, 104, 111, 114, 116, 44, 32, 102, 117, 110, 110, 121, 32, 99, 97, 112, 116,
      105, 111, 110, 32, 102, 111, 114, 32, 97, 32, 99, 121, 98, 101, 114, 112, 117, 110,
      107, 32, 109, 101, 109, 101, 32, 119, 105, 116, 104, 32, 116, 97, 103, 115, 58, 32>>
\* tags.join(', ') of two tag lists: "a" and "b"
TagLists == {<<97>>, <<98>>}
\* part_000:600-616  the prompt of generateMemeCaption(tags), up to the "." that
\* follows the tags (the rest of the template is the same for every tag list)
CaptionPrompt(tags) == CaptionHead \o tags \o <<46>>
\* prompts passed to generateText: the caption prompts and two short ones, "hi" and "ho"
Prompts == {CaptionPrompt(tags) : tags \in TagLists} \cup {<<104, 105>>, <<104, 111>>}
\* the text the model generates for a prompt, marked with the prompt it answers
TextFor(prompt) == [answers |-> prompt]
NoText == [answers |-> <<>>]
IdleGenCall == [pc |-> "idle", prompt |-> <<>>, text |-> NoText]

\* ---- the state machine ----------------------------------------------------
\* config.js:6-18  constructor
InitWith(n) ==
    /\ isInitialized = FALSE
    /\ sockets = [c \in 1..n |-> "new"]
    /\ connectedUsers = EmptyMap
    /\ userSockets = EmptyMap
    /\ socketUsername = [c \in 1..n |-> NoUsername]
    /\ rooms = EmptyMap
    /\ adapterRooms = {}
    /\ connectionMetrics = [totalConnections |-> 0, currentConnections |-> 0,
                            totalDisconnections |-> 0]
    /\ clock = 0
    /\ out = <<>>
    /\ ret = "none"
    /\ last = [op |-> "init", socket |-> 0, arg |-> ""]
    /\ meme = [upvote_count |-> 0, downvote_count |-> 0, total_bid_amount |-> 0]
    /\ votes = EmptyMap
    /\ bids = <<>>
    /\ bidSummary = 0
    /\ voteCalls = [k \in CallIds |-> IdleVoteCall]
    /\ bidCalls = [k \in CallIds |-> IdleBidCall]
    /\ cache = EmptyMap
    /\ genCalls = [k \in CallIds |-> IdleGenCall]

Init == InitWith(MaxConns)
InitWide == InitWith(WideConns)

\* config.js:21-44  initialize(server): the socket.io server is created
Initialize ==
    /\ ~isInitialized
    /\ Install([State EXCEPT !.isInitialized = TRUE])
    /\ clock' = clock
    /\ last' = [op |-> "initialize", socket |-> 0, arg |-> ""]

\* config.js:48  io.on('connection'): a client connects; socket.io gives the
\* socket a fresh id and joins it to the room named by that id
Connect ==
    \E c \in SocketIds :
        /\ isInitialized
        /\ sockets[c] = "new"
        /\ \A d \in SocketIds : d < c => sockets[d] # "new"
        /\ Install(handleConnection(
              [State EXCEPT !.sockets[c] = "open",
                            !.adapterRooms = @ \cup {<<SidRoom(c), c>>}], c))
        /\ clock' = clock
        /\ last' = [op |-> "connect", socket |-> c, arg |-> ""]

\* config.js:74  socket.on('authenticate')
Authenticate ==
    \E c \in SocketIds, username \in Usernames \cup {NoUsername} :
        /\ sockets[c] = "open"
        /\ Install(handleAuthentication(State, c, username))
        /\ clock' = clock
        /\ last' = [op |-> "authenticate", socket |-> c, arg |-> username]

\* config.js:77  socket.on('ping')
Ping ==
    \E c \in SocketIds :
        /\ sockets[c] = "open"
        /\ Install(handlePing(State, c))
        /\ clock' = clock
        /\ last' = [op |-> "ping", socket |-> c, arg |-> ""]

\* time passes: new Date() returns a later instant
Tick ==
    /\ clock < MaxClock
    /\ clock' = clock + 1
    /\ UNCHANGED <<isInitialized, sockets, connectedUsers, userSockets, socketUsername,
                   rooms, adapterRooms, connectionMetrics, out, ret, last>>
    /\ UNCHANGED <<storeVars, genVars>>

\* config.js:80  socket.on('join_room')
JoinRoom ==
    \E c \in SocketIds, room \in RoomNames :
        /\ sockets[c] = "open"
        /\ Install(handleJoinRoom(State, c, room))
        /\ clock' = clock
        /\ last' = [op |-> "join_room", socket |-> c, arg |-> room]

\* config.js:81  socket.on('leave_room')
LeaveRoom ==
    \E c \in SocketIds, room \in RoomNames :
        /\ sockets[c] = "open"
        /\ Install(handleLeaveRoom(State, c, room))
        /\ clock' = clock
        /\ last' = [op |-> "leave_room", socket |-> c, arg |-> room]

\* config.js:84  socket.on('disconnect'): the client or the transport closes the socket
Disconnect ==
    \E c \in SocketIds, reason \in CloseReasons :
        /\ sockets[c] = "open"
        /\ Install(SocketClose(State, c, reason))
        /\ clock' = clock
        /\ last' = [op |-> "disconnect", socket |-> c, arg |-> reason]

\* the event name of a dispatched message
DispatchEvent == "notification"

\* auth.js:551  business logic calls messageService.sendToUser
SendToUser ==
    \E username \in Usernames :
        /\ Install(sendToUser(State, username, DispatchEvent))
        /\ clock' = clock
        /\ last' = [op |-> "sendToUser", socket |-> 0, arg |-> username]

\* auth.js:586  business logic calls messageService.broadcast
Broadcast ==
    /\ Install(broadcast(State, DispatchEvent))
    /\ clock' = clock
    /\ last' = [op |-> "broadcast", socket |-> 0, arg |-> ""]

\* auth.js:608  business logic calls messageService.sendToRoom
SendToRoom ==
    \E room \in RoomNames :
        /\ Install(sendToRoom(State, room, DispatchEvent))
        /\ clock' = clock
        /\ last' = [op |-> "sendToRoom", socket |-> 0, arg |-> room]

\* room names that are no ordinary names: the id of socket 1, which is also
\* the socket.io room io.to(socketId) addresses, and the missing name
OddRoomNames == {ToString(1), NoRoom}

\* config.js:80  join_room with such a name
JoinOddRoom ==
    \E c \in SocketIds, room \in OddRoomNames :
        /\ sockets[c] = "open"
        /\ Install(handleJoinRoom(State, c, room))
        /\ clock' = clock
        /\ last' = [op |-> "join_room", socket |-> c, arg |-> room]

\* config.js:81  leave_room with such a name
LeaveOddRoom ==
    \E c \in SocketIds, room \in OddRoomNames :
        /\ sockets[c] = "open"
        /\ Install(handleLeaveRoom(State, c, room))
        /\ clock' = clock
        /\ last' = [op |-> "leave_room", socket |-> c, arg |-> room]

\* config.js:80  join_room with the one room name used while time passes
JoinLobby ==
    \E c \in SocketIds :
        /\ sockets[c] = "open"
        /\ Install(handleJoinRoom(State, c, "lobby"))
        /\ clock' = clock
        /\ last' = [op |-> "join_room", socket |-> c, arg |-> "lobby"]

Next ==
    \/ Initialize \/ Connect \/ Authenticate \/ Ping \/ JoinRoom \/ LeaveRoom
    \/ Disconnect \/ SendToUser \/ Broadcast \/ SendToRoom
NextClock ==
    \/ Initialize \/ Connect \/ Authenticate \/ Ping \/ JoinLobby \/ Disconnect \/ Tick

NextOdd ==
    \/ Initialize \/ Connect \/ Authenticate \/ JoinOddRoom \/ LeaveOddRoom
    \/ Disconnect \/ SendToUser

\* all events within one instant of the clock: timestamps never steer a handler
Spec == Init /\ [][Next]_vars
\* the same, with one more socket
SpecWide == InitWide /\ [][Next]_vars
\* clients that send socket ids or nothing as room names
SpecOdd == Init /\ [][NextOdd]_vars
\* connections, authentication, heartbeats and one room, with time passing between events
SpecClock == Init /\ [][NextClock]_vars

\* ---- MemeService.voteOnMeme (auth.js:336-437), one action per await ---------
\* auth.js:343-349  a call starts: select the active vote of username on the meme
VoteSelect ==
    \E k \in CallIds, username \in Usernames, voted \in VoteValues :
        /\ voteCalls[k].pc = "idle"
        /\ voteCalls' = [voteCalls EXCEPT ![k] =
               [@ EXCEPT !.pc = IF MapHas(votes, username) THEN "updateVote" ELSE "createVote",
                         !.username = username, !.voted = voted,
                         !.existingVote = IF MapHas(votes, username)
                                          THEN votes[username] ELSE NoVote]]
        /\ UNCHANGED <<wsVars, meme, votes, bids, bidSummary, bidCalls, genVars>>

\* auth.js:356-359  update the existing vote row
VoteUpdateVote ==
    \E k \in CallIds :
        /\ voteCalls[k].pc = "updateVote"
        /\ votes' = MapSet(votes, voteCalls[k].username, voteCalls[k].voted)
        /\ voteCalls' = [voteCalls EXCEPT ![k].pc = "readMeme"]
        /\ UNCHANGED <<wsVars, meme, bids, bidSummary, bidCalls, genVars>>

\* auth.js:386-391  insert a vote row; db.js:214 UNIQUE(meme_id, username,
\* is_active) makes the insert fail when the user has an active row by now
VoteCreate ==
    \E k \in CallIds :
        /\ voteCalls[k].pc = "createVote"
        /\ IF MapHas(votes, voteCalls[k].username)
           THEN /\ voteCalls' = [voteCalls EXCEPT ![k].pc = "failed"]
                /\ votes' = votes
           ELSE /\ votes' = MapSet(votes, voteCalls[k].username, voteCalls[k].voted)
                /\ voteCalls' = [voteCalls EXCEPT ![k].pc = "readMeme"]
        /\ UNCHANGED <<wsVars, meme, bids, bidSummary, bidCalls, genVars>>

\* auth.js:362-366, 394-399  select the counts of the meme
VoteReadMeme ==
    \E k \in CallIds :
        /\ voteCalls[k].pc = "readMeme"
        /\ voteCalls' = [voteCalls EXCEPT ![k] =
               [@ EXCEPT !.pc = "writeMeme",
                         !.upvote_count = meme.upvote_count,
                         !.downvote_count = meme.downvote_count]]
        /\ UNCHANGED <<wsVars, meme, votes, bids, bidSummary, bidCalls, genVars>>

\* auth.js:368-384, 401-404  write the counts computed from the ones read
VoteWriteMeme ==
    \E k \in CallIds :
        LET call == voteCalls[k]
            changed == call.existingVote # call.voted
            upvoteChange == IF ~changed THEN 0 ELSE IF call.voted = 1 THEN 1 ELSE -1
            downvoteChange == IF ~changed THEN 0 ELSE IF call.voted = 1 THEN -1 ELSE 1
        IN  /\ call.pc = "writeMeme"
            /\ meme' = IF call.existingVote # NoVote
                       THEN [meme EXCEPT
                               !.upvote_count = Max(0, call.upvote_count + upvoteChange),
                               !.downvote_count = Max(0, call.downvote_count + downvoteChange)]
                       ELSE IF call.voted = 1
                            THEN [meme EXCEPT !.upvote_count = call.upvote_count + 1]
                            ELSE [meme EXCEPT !.downvote_count = call.downvote_count + 1]
            /\ voteCalls' = [voteCalls EXCEPT ![k].pc = "announce"]
            /\ UNCHANGED <<wsVars, votes, bids, bidSummary, bidCalls, genVars>>

\* auth.js:407-432  select the counts again and announce them in vote_update
VoteAnnounce ==
    \E k \in CallIds :
        /\ voteCalls[k].pc = "announce"
        /\ voteCalls' = [voteCalls EXCEPT ![k] =
               [@ EXCEPT !.pc = "done",
                         !.upvote_count = meme.upvote_count,
                         !.downvote_count = meme.downvote_count]]
        /\ UNCHANGED <<wsVars, meme, votes, bids, bidSummary, bidCalls, genVars>>

NextVote ==
    \/ VoteSelect \/ VoteUpdateVote \/ VoteCreate \/ VoteReadMeme \/ VoteWriteMeme
    \/ VoteAnnounce
\* concurrent voteOnMeme calls on one meme
SpecVote == Init /\ [][NextVote]_vars

\* ---- MemeService.bidOnMeme (auth.js:260-334), one action per await ----------
\* auth.js:268-274  a call starts: select total_bid_amount of the meme
BidReadMeme ==
    \E k \in CallIds, bid_amount \in BidAmounts :
        /\ bidCalls[k].pc = "idle"
        /\ bidCalls' = [bidCalls EXCEPT ![k] =
               [@ EXCEPT !.pc = "createBid", !.bid_amount = bid_amount,
                         !.total_bid_amount = meme.total_bid_amount]]
        /\ UNCHANGED <<wsVars, meme, votes, bids, bidSummary, voteCalls, genVars>>

\* auth.js:277-284  insert the bid row
BidCreate ==
    \E k \in CallIds :
        /\ bidCalls[k].pc = "createBid"
        /\ bids' = Append(bids, bidCalls[k].bid_amount)
        /\ bidCalls' = [bidCalls EXCEPT ![k].pc = "updateMeme"]
        /\ UNCHANGED <<wsVars, meme, votes, bidSummary, voteCalls, genVars>>

\* auth.js:287-291  write the total computed from the one read at the start
BidUpdateMeme ==
    \E k \in CallIds :
        /\ bidCalls[k].pc = "updateMeme"
        /\ meme' = [meme EXCEPT !.total_bid_amount =
                       bidCalls[k].total_bid_amount + bidCalls[k].bid_amount]
        /\ bidCalls' = [bidCalls EXCEPT ![k].pc = "readSummary"]
        /\ UNCHANGED <<wsVars, votes, bids, bidSummary, voteCalls, genVars>>

\* auth.js:294-298  select the bid summary of the meme
BidReadSummary ==
    \E k \in CallIds :
        /\ bidCalls[k].pc = "readSummary"
        /\ bidCalls' = [bidCalls EXCEPT ![k] =
               [@ EXCEPT !.pc = "upsertSummary", !.existingBidSummary = bidSummary]]
        /\ UNCHANGED <<wsVars, meme, votes, bids, bidSummary, voteCalls, genVars>>

\* auth.js:300-309  upsert the summary when this bid is the highest seen
BidUpsertSummary ==
    \E k \in CallIds :
        /\ bidCalls[k].pc = "upsertSummary"
        /\ bidSummary' = IF \/ bidCalls[k].existingBidSummary = 0
                            \/ bidCalls[k].bid_amount > bidCalls[k].existingBidSummary
                         THEN bidCalls[k].bid_amount ELSE bidSummary
        /\ bidCalls' = [bidCalls EXCEPT ![k].pc = "announce"]
        /\ UNCHANGED <<wsVars, meme, votes, bids, voteCalls, genVars>>

\* auth.js:312-323  select the meme again and broadcast bid_update with its total
BidAnnounce ==
    \E k \in CallIds :
        /\ bidCalls[k].pc = "announce"
        /\ bidCalls' = [bidCalls EXCEPT ![k] =
               [@ EXCEPT !.pc = "done", !.newTotal = meme.total_bid_amount]]
        /\ UNCHANGED <<wsVars, meme, votes, bids, bidSummary, voteCalls, genVars>>

NextBid ==
    \/ BidReadMeme \/ BidCreate \/ BidUpdateMeme \/ BidReadSummary \/ BidUpsertSummary
    \/ BidAnnounce
\* concurrent bidOnMeme calls on one meme
SpecBid == Init /\ [][NextBid]_vars

\* ---- GeminiService.generateText (part_000:573-598) --------------------------
\* part_000:575-585  a call starts: a cached text under the prompt's key is
\* returned at once, otherwise the model is asked
GenLookup ==
    \E k \in CallIds, prompt \in Prompts :
        LET cacheKey == generateCacheKey(prompt)
        IN  /\ genCalls[k].pc = "idle"
            /\ genCalls' = [genCalls EXCEPT ![k] =
                  IF MapHas(cache, cacheKey)
                  THEN [pc |-> "done", prompt |-> prompt, text |-> cache[cacheKey]]
                  ELSE [pc |-> "generate", prompt |-> prompt, text |-> NoText]]
            /\ UNCHANGED <<wsVars, storeVars, cache>>

\* part_000:585-593  the model answers: the text is cached under the key and returned
GenAnswer ==
    \E k \in CallIds :
        LET text == TextFor(genCalls[k].prompt)
        IN  /\ genCalls[k].pc = "generate"
            /\ cache' = MapSet(cache, generateCacheKey(genCalls[k].prompt), text)
            /\ genCalls' = [genCalls EXCEPT ![k] = [@ EXCEPT !.pc = "done", !.text = text]]
            /\ UNCHANGED <<wsVars, storeVars>>

\* part_000:570  stdTTL: an entry expires
CacheExpire ==
    \E key \in DOMAIN cache :
        /\ cache' = MapDelete(cache, key)
        /\ UNCHANGED <<wsVars, storeVars, genCalls>>

NextGen == GenLookup \/ GenAnswer \/ CacheExpire
\* concurrent generateText calls
SpecGen == Init /\ [][NextGen]_vars

TypeOK ==
    /\ isInitialized \in BOOLEAN
    /\ ret \in {"none", "true", "false"}
    /\ \A c \in SocketIds : sockets[c] \in {"new", "open", "closed"}
    /\ DOMAIN connectedUsers \subseteq Usernames
    /\ \A u \in DOMAIN connectedUsers : connectedUsers[u].socketId \in SocketIds
    /\ clock \in 0..MaxClock
    /\ DOMAIN userSockets \subseteq SocketIds
    /\ \A c \in DOMAIN userSockets : userSockets[c] \in Usernames
    /\ \A r \in DOMAIN rooms : rooms[r] \subseteq Usernames
    /\ meme.upvote_count \in Nat /\ meme.downvote_count \in Nat
    /\ meme.total_bid_amount \in Nat
    /\ DOMAIN votes \subseteq Usernames
    /\ \A u \in DOMAIN votes : votes[u] \in VoteValues
    /\ \A i \in DOMAIN bids : bids[i] \in BidAmounts
    /\ bidSummary \in BidAmounts \cup {0}
    /\ \A key \in DOMAIN cache : Len(key) <= KeyLength
    /\ \A k \in CallIds : genCalls[k].prompt \in Prompts \cup {<<>>}

\* ---- vocabulary of the properties -----------------------------------------
OutEvents(o) == {o[i] : i \in DOMAIN o}

\* socket c is bound to username u: by the identity map, by the socket map,
\* or by the username the socket object carries
Bound(s, c, u) ==
    \/ MapHas(s.connectedUsers, u) /\ s.connectedUsers[u].socketId = c
    \/ MapHas(s.userSockets, c) /\ s.userSockets[c] = u
    \/ s.socketUsername[c] = u

AtMostOneBound(s) ==
    \A u \in Usernames : \A c, d \in OpenSockets(s) :
        Bound(s, c, u) /\ Bound(s, d, u) => c = d

\* the step just taken is a superseding authentication: username u was bound
\* to the open socket `old` and authenticates from the different socket last'.socket
Supersedes(u, old) ==
    /\ last'.op = "authenticate" /\ last'.arg = u
    /\ getUserInfo(u) = old
    /\ old # last'.socket /\ sockets[old] = "open"

\* C1: in every reachable state at most one open connection is bound to any
\* identity, and also in the intermediate state of an authentication, after
\* the stale connection was closed and before the new binding is installed.
C1_AtMostOneConnectionPerIdentity ==
    /\ AtMostOneBound(State)
    /\ \A u \in Usernames : AtMostOneBound(removeUserFromPreviousSocket(State, u))

\* a second socket has just taken over an identity from a socket that was force-closed
C1_Witness ==
    \E c, d \in SocketIds :
        /\ c # d /\ sockets[c] = "closed" /\ sockets[d] = "open"
        /\ socketUsername[d] # NoUsername /\ socketUsername[c] = socketUsername[d]
        /\ last.op = "authenticate" /\ last.socket = d
        /\ \E e \in OutEvents(out) : e.ev = "user_disconnected" /\ e.arg = ForcedReason

\* C2: when a second connection authenticates as an identity bound to an open
\* connection, the old connection's disconnect is processed in that step and
\* afterwards the identity is online and bound to the new connection; and no
\* disconnect of another connection ever removes or changes an identity's binding.
C2_SupersedingBindingSurvives ==
    [][\A u \in Usernames :
        /\ \A old \in SocketIds : Supersedes(u, old) =>
              /\ sockets'[old] = "closed"
              /\ connectionMetrics'.totalDisconnections = connectionMetrics.totalDisconnections + 1
              /\ isUserOnline(u)' /\ getUserInfo(u)' = last'.socket
              /\ sockets'[last'.socket] = "open"
        /\ (last'.op = "disconnect" /\ isUserOnline(u) /\ getUserInfo(u) # last'.socket) =>
              (isUserOnline(u)' /\ getUserInfo(u)' = getUserInfo(u))
      ]_vars

\* the superseded socket is closed and its disconnect counted, and the identity
\* is online on the superseding socket, which has handled a further event since
C2_Witness ==
    \E u \in Usernames, c, d \in SocketIds :
        /\ c # d
        /\ sockets[c] = "closed" /\ socketUsername[c] = u
        /\ connectionMetrics.totalDisconnections = 1
        /\ sockets[d] = "open" /\ isUserOnline(u) /\ getUserInfo(u) = d
        /\ last.op = "ping" /\ last.socket = d

\* C3: the superseded connection's disconnect carries the reason `superseded`.
C3_SupersededReason ==
    [][\A u \in Usernames, old \in SocketIds : Supersedes(u, old) =>
          /\ sockets'[old] = "closed"
          /\ \E e \in OutEvents(out') :
                e.ch = "hook" /\ e.ev = "user_disconnected" /\ e.arg = "superseded"
      ]_vars

\* C4: no registry entry refers to a connection that is not open.
C4_DisconnectedIsTerminal ==
    /\ \A u \in DOMAIN connectedUsers : sockets[connectedUsers[u].socketId] = "open"
    /\ \A c \in DOMAIN userSockets : sockets[c] = "open"

\* C5: every member of every room is bound in the registry to an open connection.
C5_MembersHaveSession ==
    \A r \in DOMAIN rooms : \A u \in rooms[r] :
        isUserOnline(u) /\ sockets[getUserInfo(u)] = "open"

\* C6: the room directory holds no room with an empty membership set.
C6_NoEmptyRoom ==
    \A r \in getAllRooms : getRoomUsers(r) # {}

\* a room that existed has just been destroyed by its last member going away
C6_Witness ==
    /\ last.op \in {"leave_room", "disconnect"}
    /\ \E e \in OutEvents(out) :
          e.ch = "room" /\ e.ev = "user_left_room" /\ e.room \notin getAllRooms
    /\ getAllRooms # {}

\* C7: right after join_room(R) by an authenticated connection its identity is
\* a member of R, and right after leave_room(R) it is not.
C7_JoinLeaveMembership ==
    [][\A c \in SocketIds, r \in RoomNames :
        (last'.socket = c /\ last'.arg = r /\ MapHas(userSockets, c)) =>
           /\ socketUsername[c] = userSockets[c]
           /\ last'.op = "join_room" => userSockets[c] \in getRoomUsers(r)'
           /\ last'.op = "leave_room" => userSockets[c] \notin getRoomUsers(r)'
      ]_vars

\* an authenticated socket has just left a room that others are still in
C7_Witness ==
    /\ last.op = "leave_room"
    /\ MapHas(userSockets, last.socket)
    /\ MapHas(rooms, last.arg)
    /\ userSockets[last.socket] \notin rooms[last.arg]

\* C8: after an authenticated connection bound to I disconnects, I is in no
\* room, each room it was in has its prior members minus I, and user_left_room
\* naming I reaches the connections of the remaining members of each such room.
C8_DisconnectPurgesAndNotifies ==
    [][\A c \in SocketIds :
        (last'.op = "disconnect" /\ last'.socket = c /\ MapHas(userSockets, c)) =>
           LET I == userSockets[c] IN
           /\ \A r \in DOMAIN rooms' : I \notin rooms'[r]
           /\ \A r \in DOMAIN rooms : I \in rooms[r] =>
                 /\ getRoomUsers(r)' = rooms[r] \ {I}
                 /\ \E e \in OutEvents(out') :
                       /\ e.ev = "user_left_room" /\ e.room = r /\ e.username = I
                       /\ \A v \in rooms[r] \ {I} :
                             (isUserOnline(v)' /\ sockets'[getUserInfo(v)'] = "open")
                                => getUserInfo(v)' \in e.to
      ]_vars

\* C9: the metrics snapshot has totalConnections >= currentConnections.
C9_TotalAtLeastCurrent ==
    getConnectionMetrics.totalConnections >= getConnectionMetrics.currentConnections

\* C10: the snapshot's currentConnections is the number of open connections.
C10_CurrentIsOpenCount ==
    getConnectionMetrics.currentConnections = Cardinality(OpenSockets(State))

\* C11: when a connection that never authenticated disconnects, nothing is
\* emitted (no user_status broadcast, no user_disconnected lifecycle event),
\* the registry maps and the room directory are unchanged, and the counters
\* of connectionMetrics are updated: currentConnections one less,
\* totalDisconnections one more.
C11_UnauthenticatedDisconnect ==
    [][\A c \in SocketIds :
        (last'.op = "disconnect" /\ last'.socket = c /\ socketUsername[c] = NoUsername) =>
           /\ sockets[c] = "open" /\ sockets'[c] = "closed"
           /\ \A e \in OutEvents(out') : e.ev \notin {"user_status", "user_disconnected"}
           /\ out' = <<>>
           /\ connectedUsers' = connectedUsers
           /\ userSockets' = userSockets
           /\ rooms' = rooms
           /\ connectionMetrics'.currentConnections = connectionMetrics.currentConnections - 1
           /\ connectionMetrics'.totalDisconnections = connectionMetrics.totalDisconnections + 1
           /\ connectionMetrics'.totalConnections = connectionMetrics.totalConnections
      ]_vars

\* a socket that never authenticated has just closed while another identity is
\* online and a room exists
C11_Witness ==
    /\ last.op = "disconnect"
    /\ socketUsername[last.socket] = NoUsername
    /\ connectionMetrics.totalDisconnections = 1
    /\ connectionMetrics.currentConnections = 1
    /\ DOMAIN connectedUsers # {} /\ getAllRooms # {}

\* the one event a dispatch call has emitted, if it emitted
Delivered(o) == IF o = <<>> THEN {} ELSE o[1].to

\* C12: once the server is initialized, broadcast delivers to exactly the open
\* connections, their number is the currentConnections of the metrics
\* snapshot, and the call returns true.
C12_BroadcastReachesAllOpen ==
    [][(last'.op = "broadcast" /\ isInitialized) =>
          /\ ret' = "true"
          /\ Len(out') = 1
          /\ Delivered(out') = OpenSockets(State)
          /\ Cardinality(Delivered(out')) = getConnectionMetrics.currentConnections
      ]_vars

\* username u has no registry entry that names an open connection
Offline(u) == ~(isUserOnline(u) /\ sockets[getUserInfo(u)] = "open")

\* C13: sendToUser for an identity with no open connection returns false and
\* delivers nothing.
C13_OfflineSendFails ==
    [][\A u \in Usernames :
        (last'.op = "sendToUser" /\ last'.arg = u /\ Offline(u)) =>
           (ret' = "false" /\ Delivered(out') = {})
      ]_vars

\* C14: sendToUser for an identity bound to an open connection returns true
\* and delivers to that connection and to no other.
C14_SendReachesOnlyBoundSocket ==
    [][\A u \in Usernames :
        (last'.op = "sendToUser" /\ last'.arg = u /\ ~Offline(u)) =>
           (ret' = "true" /\ Delivered(out') = {getUserInfo(u)})
      ]_vars

\* the open connections of the identities that are members of the room
MemberSockets(room) ==
    {c \in OpenSockets(State) : \E u \in getRoomUsers(room) : getUserInfo(u) = c}

\* C15: sendToRoom delivers to exactly the open connections whose identity is
\* a member of the room.
C15_RoomSendReachesMembers ==
    [][\A r \in RoomNames :
        (last'.op = "sendToRoom" /\ last'.arg = r /\ isInitialized) =>
           Delivered(out') = MemberSockets(r)
      ]_vars

\* C16: sendToRoom on a room that is not in the room directory returns true
\* and delivers to no connection.
C16_UnknownRoomSendIsNoOp ==
    [][\A r \in RoomNames :
        (last'.op = "sendToRoom" /\ last'.arg = r /\ isInitialized /\ r \notin getAllRooms) =>
           (ret' = "true" /\ Delivered(out') = {})
      ]_vars

C18_InvalidRoomRequestRejected ==
    [][\A c \in SocketIds :
        (/\ last'.op \in {"join_room", "leave_room"} /\ last'.socket = c
         /\ (socketUsername[c] = NoUsername \/ last'.arg = NoRoom)) =>
           /\ Registry(State)' = Registry(State)
           /\ adapterRooms' = adapterRooms
           /\ \A e \in OutEvents(out') : e.ch = "socket" /\ e.to \subseteq {c}
      ]_vars

\* C19: in authenticate, join_room, leave_room and disconnect every event is
\* emitted with the registry and the rooms already in their final state.
C19_MutationsBeforeEvents ==
    [][last'.op \in {"authenticate", "join_room", "leave_room", "disconnect"} =>
          \A e \in OutEvents(out') : e.seen = Registry(State)'
      ]_vars

\* the reason of the close that the step just taken performed on a socket
CloseReasonOfStep == IF last'.op = "disconnect" THEN last'.arg ELSE ForcedReason

\* C20: whenever a connection bound to an identity closes, user_disconnected
\* is emitted exactly once for that identity, with the reason of the close.
C20_DisconnectedEventOnce ==
    [][\A c \in SocketIds, u \in Usernames :
        (sockets[c] = "open" /\ sockets'[c] = "closed" /\ Bound(State, c, u)) =>
           /\ Cardinality({i \in DOMAIN out' :
                  out'[i].ev = "user_disconnected" /\ out'[i].username = u}) = 1
           /\ \A e \in OutEvents(out') :
                  (e.ev = "user_disconnected" /\ e.username = u) => e.arg = CloseReasonOfStep
      ]_vars

\* C21: a ping on a connection changes at most the lastSeen of the session
\* that owns the connection; bindings, every other session, rooms and counters
\* are unchanged, and on an unauthenticated connection nothing changes.
C21_PingTouchesOnlyLastSeen ==
    [][\A c \in SocketIds :
        (last'.op = "ping" /\ last'.socket = c) =>
           /\ sockets' = sockets
           /\ userSockets' = userSockets
           /\ socketUsername' = socketUsername
           /\ rooms' = rooms
           /\ adapterRooms' = adapterRooms
           /\ connectionMetrics' = connectionMetrics
           /\ DOMAIN connectedUsers' = DOMAIN connectedUsers
           /\ \A u \in DOMAIN connectedUsers :
                 \/ connectedUsers'[u] = connectedUsers[u]
                 \/ /\ connectedUsers[u].socketId = c
                    /\ MapHas(userSockets, c) /\ userSockets[c] = u
                    /\ connectedUsers'[u] = [connectedUsers[u] EXCEPT !.lastSeen = clock]
           /\ socketUsername[c] = NoUsername => connectedUsers' = connectedUsers
      ]_vars

\* a ping has moved the lastSeen of one session while another session, not
\* refreshed, and a room membership exist
C21_Witness ==
    /\ last.op = "ping"
    /\ \E u \in DOMAIN connectedUsers, v \in DOMAIN connectedUsers :
          /\ u # v
          /\ connectedUsers[u].socketId = last.socket
          /\ connectedUsers[u].lastSeen = clock
          /\ connectedUsers[u].lastSeen > connectedUsers[u].connectedAt
          /\ connectedUsers[v].socketId # last.socket
          /\ connectedUsers[v].lastSeen < clock
    /\ DOMAIN rooms # {}

\* C22: a dispatch (broadcast, sendToRoom, sendToUser) made before initialize
\* raises the not-initialized error to the caller instead of returning a
\* boolean, and delivers nothing.
C22_DispatchBeforeInitializeThrows ==
    [][(last'.op \in {"broadcast", "sendToRoom", "sendToUser"} /\ ~isInitialized) =>
          /\ ret' = "throws"
          /\ out' = <<>>
      ]_vars

\* the events that report an error to the sender
ErrorEvents == {"room_error", "authentication_error"}

\* C23: leave_room for a room the connection's identity is not a member of,
\* existing or not, leaves the room directory, the registry and the counters
\* as they were and reports no error.
C23_LeaveOfNonMemberIsNoOp ==
    [][\A c \in SocketIds :
        (/\ last'.op = "leave_room" /\ last'.socket = c
         /\ socketUsername[c] # NoUsername
         /\ socketUsername[c] \notin getRoomUsers(last'.arg)) =>
           /\ rooms' = rooms
           /\ connectedUsers' = connectedUsers
           /\ userSockets' = userSockets
           /\ socketUsername' = socketUsername
           /\ connectionMetrics' = connectionMetrics
           /\ sockets' = sockets
           /\ \A e \in OutEvents(out') : e.ev \notin ErrorEvents
      ]_vars

\* an identity has just asked to leave a room that exists with other members only
C23_Witness ==
    /\ last.op = "leave_room"
    /\ socketUsername[last.socket] # NoUsername
    /\ MapHas(rooms, last.arg)
    /\ socketUsername[last.socket] \notin rooms[last.arg]
    /\ \E e \in OutEvents(out) : e.ev = "room_left" /\ e.to = {last.socket}

\* C24: the only connections in the private room user_<I> are connections
\* currently bound to I.
C24_PrivateRoomOnlyOwner ==
    \A u \in Usernames, c \in SocketIds :
        <<UserRoom(u), c>> \in adapterRooms => Bound(State, c, u)

\* the user_status broadcasts for u among the events of one step, in order
StatusesFor(o, u) == SelectSeq(o, LAMBDA e : e.ev = "user_status" /\ e.username = u)

\* C25: the most recent user_status broadcast for I says online exactly when
\* an open connection is bound to I. Stated step by step: a step that
\* broadcasts a status for I ends with the status that matches I's binding
\* after the step, and a step that broadcasts none leaves I's binding as it was
\* (with no broadcast and no binding at the start).
C25_LastStatusMatchesBinding ==
    [][\A u \in Usernames :
        LET sts == StatusesFor(out', u)
        IN  IF sts = <<>>
            THEN Offline(u)' = Offline(u)
            ELSE (sts[Len(sts)].arg = "online") <=> ~Offline(u)'
      ]_vars

\* C26: connectedUsers and userSockets are mutual inverses: identity I maps to
\* connection C exactly when C maps to I.
C26_RegistryMapsAreInverse ==
    \A u \in Usernames, c \in SocketIds :
        (MapHas(connectedUsers, u) /\ connectedUsers[u].socketId = c)
            <=> (MapHas(userSockets, c) /\ userSockets[c] = u)

\* the raw counters agree with the life of the sockets: every accepted socket
\* counted once in the total, every closed one once in the disconnections
CountersMatchSockets ==
    /\ connectionMetrics.totalConnections =
           Cardinality({c \in SocketIds : sockets[c] # "new"})
    /\ connectionMetrics.totalDisconnections =
           Cardinality({c \in SocketIds : sockets[c] = "closed"})
    /\ connectionMetrics.totalConnections =
           connectionMetrics.currentConnections + connectionMetrics.totalDisconnections
    /\ connectionMetrics.currentConnections >= 0

\* C27: the raw counters satisfy totalConnections = currentConnections +
\* totalDisconnections with currentConnections >= 0, the two totals never
\* decrease, and each accepted connection adds exactly one to each of them
\* over its life, also when it is closed by supersession.
C27_RawCountersBalance ==
    [][/\ CountersMatchSockets /\ CountersMatchSockets'
       /\ connectionMetrics'.totalConnections >= connectionMetrics.totalConnections
       /\ connectionMetrics'.totalDisconnections >= connectionMetrics.totalDisconnections
      ]_vars

\* one connection has been closed by a superseding authenticate of another
C27_Witness ==
    /\ last.op = "authenticate"
    /\ sockets[last.socket] = "open"
    /\ \E c \in SocketIds : c # last.socket /\ sockets[c] = "closed"
    /\ connectionMetrics = [totalConnections |-> 2, currentConnections |-> 1,
                            totalDisconnections |-> 1]

\* no voteOnMeme call is between two of its steps
VotesQuiescent == \A k \in CallIds : voteCalls[k].pc \in {"idle", "done", "failed"}

\* C28: after any interleaving of concurrent voteOnMeme calls, upvote_count is
\* the number of active votes with voted = 1 and downvote_count the number
\* with voted = 0, and no count is negative.
C28_VoteCountsMatchVotes ==
    /\ meme.upvote_count >= 0 /\ meme.downvote_count >= 0
    /\ VotesQuiescent =>
          /\ meme.upvote_count = Cardinality({u \in DOMAIN votes : votes[u] = 1})
          /\ meme.downvote_count = Cardinality({u \in DOMAIN votes : votes[u] = 0})

\* no bidOnMeme call is between two of its steps
BidsQuiescent == \A k \in CallIds : bidCalls[k].pc \in {"idle", "done"}

\* C29: after any interleaving of concurrent bidOnMeme calls, total_bid_amount
\* is the sum of the bid rows of the meme, and the newTotal announced for a
\* bid includes that bid.
C29_TotalIsSumOfBids ==
    /\ BidsQuiescent => meme.total_bid_amount = SumSeq(bids)
    /\ \A k \in CallIds :
          bidCalls[k].pc = "done" => bidCalls[k].newTotal >= bidCalls[k].bid_amount

\* C30: generateText(prompt) returns a text generated for that same prompt.
C30_TextAnswersItsPrompt ==
    \A k \in CallIds :
        genCalls[k].pc = "done" => genCalls[k].text = TextFor(genCalls[k].prompt)

====
